---------------------------- MODULE Spec2Model ----------------------------
(***************************************************************************)
(* A model of the Unicode Character Database normaliser of colt-cpp        *)
(* (scripts/unicode/colt.py and scripts/unicode/parseunicode.py).          *)
(*                                                                         *)
(* Python values are represented as follows.                               *)
(*   str            a TLA+ string; characters are read with SubSeq         *)
(*   None           the string None (no input text equals it)              *)
(*   dict           a function whose DOMAIN is the set of keys present     *)
(*   list           a sequence                                             *)
(*   object         a dict that several records may reference lives in     *)
(*                  the variable heap, and a record holds its index        *)
(*   exception      a result record with ok = FALSE, or pc = "error"       *)
(*                                                                         *)
(* The specifications share the module, one per component:                 *)
(*   SpecHex     CodePoint.int_to_hex / CodePoint.from_str                 *)
(*   SpecRange   CodePointRange: constructor, from_str and "in"            *)
(*   SpecChunk   colt.chunk                                                *)
(*   SpecAlias   parse_propertyaliases                                     *)
(*   SpecKinds   parse_propertytypes                                       *)
(*   SpecCatalog parse_propertyvalue                                       *)
(*   Spec        parse_unicodedata (the normaliser)                        *)
(*   SpecAnyLine parse_unicodedata on a file with malformed lines too      *)
(***************************************************************************)
EXTENDS Integers, Sequences, FiniteSets, TLC

VARIABLES
  \* ---- SpecHex: one conversion int -> str -> CodePoint
  hex_pc,             \* "idle" | "start" | "formatted" | "parsed"
  hex_value,          \* the int handed to int_to_hex
  hex_text,           \* the str produced by int_to_hex / handed to from_str
  hex_result,         \* what from_str returned (or raised)
  \* ---- SpecChunk: one run of the generator chunk(l, n)
  chunk_pc,           \* "idle" | "run" | "done"
  chunk_l,            \* the list argument
  chunk_n,            \* the chunk count argument
  chunk_i,            \* the generator's loop variable i
  chunk_out,          \* the chunks yielded so far, in order
  \* ---- SpecAlias: parse_propertyaliases over a stream of records
  alias_pc,           \* "idle" | "lines" | "done"
  alias_lines,        \* the records of PropertyAliases.txt read so far
  alias_table,        \* PROPERTY_LIST of parse_propertyaliases
  \* ---- SpecRange: one CodePointRange built and asked for a member
  range_pc,           \* "idle" | "direct" | "text" | "built" | "tested" | "error"
  range_begin,        \* the value of the CodePoint handed over as begin
  range_end,          \* the value of the CodePoint handed over as end
  range_text,         \* the str handed to CodePointRange.from_str
  range_obj,          \* the CodePointRange built (or the exception raised)
  range_key,          \* the value of the CodePoint asked for with "in"
  range_in,           \* what "key in range" returned
  \* ---- SpecKinds: parse_propertytypes over a stream of records
  kinds_pc,           \* "idle" | "lines" | "done"
  kinds_lines,        \* the records of PropertyAliases.txt read so far
  kinds_table,        \* PROPERTY_LIST of parse_propertytypes
  kinds_kind,         \* the local variable kind
  \* ---- SpecCatalog: parse_propertyvalue over the lines of a file
  pv_pc,              \* "idle" | "lines" | "done" | "error"
  pv_lines,           \* the lines of PropertyValueAliases.txt read so far
  pv_list,            \* PROPERTY_LIST of parse_propertyvalue
  CURRENT_PROPERTY,   \* the abbreviation of the most recent header line
  \* ---- Spec: parse_unicodedata
  pc,                 \* "idle" | "lines" | "overlay" | "done" | "error"
  PROPERTY_LIST,      \* the catalog returned by parse_propertyvalue
  BINARY_PROPERTY,    \* the list returned by parse_properties
  CODE_POINT_LIST,    \* list of CodePointInfo
  heap,               \* the PROPERTIES dict objects, by reference
  default_memo,       \* functools.cache of default_properties: 0 or a reference
  input,              \* the lines of UnicodeData.txt read so far
  file_lines,         \* what UnicodeData.txt may hold: "wellformed" | "any"
  overlay_i,          \* loop variable i of the overlay pass
  overlay_j           \* loop variable j of the overlay pass

hexVars   == <<hex_pc, hex_value, hex_text, hex_result>>
chunkVars == <<chunk_pc, chunk_l, chunk_n, chunk_i, chunk_out>>
aliasVars == <<alias_pc, alias_lines, alias_table>>
udVars    == <<pc, PROPERTY_LIST, BINARY_PROPERTY, CODE_POINT_LIST, heap,
               default_memo, input, file_lines, overlay_i, overlay_j>>
rangeVars == <<range_pc, range_begin, range_end, range_text, range_obj,
               range_key, range_in>>
kindsVars == <<kinds_pc, kinds_lines, kinds_table, kinds_kind>>
pvVars    == <<pv_pc, pv_lines, pv_list, CURRENT_PROPERTY>>
vars      == <<hexVars, chunkVars, aliasVars, udVars, rangeVars, kindsVars, pvVars>>

\* Python's None.
None == "<None>"

\* The empty dict.
EmptyDict == [k \in {} |-> None]

\* d[k] = v on a dict.
DictSet(d, k, v) == [x \in (DOMAIN d) \cup {k} |-> IF x = k THEN v ELSE d[x]]

\* d.update(e) / {**d, **e}: the keys of e win.
DictUpdate(d, e) ==
  [x \in (DOMAIN d) \cup (DOMAIN e) |-> IF x \in DOMAIN e THEN e[x] ELSE d[x]]

Min(a, b) == IF a <= b THEN a ELSE b

-----------------------------------------------------------------------------
(***************************************************************************)
(* colt.py: CodePoint                                                      *)
(***************************************************************************)

\* CodePoint.max_code_point()
max_code_point == 1114111

\* The character at (1-based) position i of s.
CharAt(s, i) == SubSeq(s, i, i)

UpperHexChars == <<"0","1","2","3","4","5","6","7","8","9","A","B","C","D","E","F">>
LowerHexChars == <<"0","1","2","3","4","5","6","7","8","9","a","b","c","d","e","f">>

\* format(n, "X") for n >= 0: uppercase hex, no padding.
RECURSIVE UpperHex(_)
UpperHex(n) ==
  IF n < 16 THEN UpperHexChars[n + 1]
  ELSE UpperHex(n \div 16) \o UpperHexChars[(n % 16) + 1]

RECURSIVE ZeroPad(_, _)
ZeroPad(s, width) == IF Len(s) >= width THEN s ELSE ZeroPad("0" \o s, width)

\* f"{value:0{width}X}": the sign, when there is one, counts in the width.
FormatX(value, width) ==
  IF value >= 0 THEN ZeroPad(UpperHex(value), width)
  ELSE "-" \o ZeroPad(UpperHex(0 - value), width - 1)

int_to_hex_width_bug(value) ==
  IF value <= 65535 THEN FormatX(value, 4)
  ELSE FormatX(value, 7)

\* CodePoint.int_to_hex
int_to_hex(value) ==
  IF value <= 65535 THEN FormatX(value, 4)
  ELSE IF value <= 1048575 THEN FormatX(value, 5)
  ELSE FormatX(value, 6)

\* str.strip() for the whitespace the inputs use.
IsSpace(c) == c \in {" ", "\t", "\n", "\r"}

RECURSIVE LStrip(_)
LStrip(s) == IF Len(s) > 0 /\ IsSpace(CharAt(s, 1)) THEN LStrip(Tail(s)) ELSE s

RECURSIVE RStrip(_)
RStrip(s) ==
  IF Len(s) > 0 /\ IsSpace(CharAt(s, Len(s)))
  THEN RStrip(SubSeq(s, 1, Len(s) - 1)) ELSE s

strip(s) == RStrip(LStrip(s))

\* The value of one hex digit, -1 when c is not [0-9a-fA-F].
HexDigitValue(c) ==
  IF \E d \in 1..16 : UpperHexChars[d] = c
  THEN (CHOOSE d \in 1..16 : UpperHexChars[d] = c) - 1
  ELSE IF \E d \in 1..16 : LowerHexChars[d] = c
  THEN (CHOOSE d \in 1..16 : LowerHexChars[d] = c) - 1
  ELSE -1

\* CODE_POINT_FROM_STR = ^([0-9a-fA-F]{4,6})$ on a stripped string.
CODE_POINT_FROM_STR(s) ==
  /\ Len(s) >= 4
  /\ Len(s) <= 6
  /\ \A i \in 1..Len(s) : HexDigitValue(CharAt(s, i)) >= 0

\* int(s, 16) on a string of hex digits.
RECURSIVE hexint(_)
hexint(s) ==
  IF Len(s) = 0 THEN 0
  ELSE 16 * hexint(SubSeq(s, 1, Len(s) - 1)) + HexDigitValue(CharAt(s, Len(s)))

\* A raised ValueError.
ValueError == [ok |-> FALSE, value |-> 0]

\* CodePoint.__init__: raises when value > max_code_point().
CodePoint(value) ==
  IF value > max_code_point THEN ValueError ELSE [ok |-> TRUE, value |-> value]

\* CodePoint.from_str
from_str(value) ==
  LET v == strip(value) IN
  IF ~CODE_POINT_FROM_STR(v) THEN ValueError ELSE CodePoint(hexint(v))


-----------------------------------------------------------------------------
(***************************************************************************)
(* The values the other components' variables hold while one component's   *)
(* specification runs.                                                     *)
(***************************************************************************)
HexIdle ==
  /\ hex_pc = "idle"
  /\ hex_value = 0
  /\ hex_text = ""
  /\ hex_result = ValueError

ChunkIdle ==
  /\ chunk_pc = "idle"
  /\ chunk_l = <<>>
  /\ chunk_n = 1
  /\ chunk_i = 0
  /\ chunk_out = <<>>

AliasIdle ==
  /\ alias_pc = "idle"
  /\ alias_lines = <<>>
  /\ alias_table = EmptyDict

UdIdle ==
  /\ pc = "idle"
  /\ PROPERTY_LIST = EmptyDict
  /\ BINARY_PROPERTY = <<>>
  /\ CODE_POINT_LIST = <<>>
  /\ heap = <<>>
  /\ default_memo = 0
  /\ input = <<>>
  /\ file_lines = "wellformed"
  /\ overlay_i = 0
  /\ overlay_j = 0

RangeIdle ==
  /\ range_pc = "idle"
  /\ range_begin = 0
  /\ range_end = 0
  /\ range_text = ""
  /\ range_obj = [ok |-> FALSE, begin |-> 0, end |-> 0]
  /\ range_key = 0
  /\ range_in = FALSE

KindsIdle ==
  /\ kinds_pc = "idle"
  /\ kinds_lines = <<>>
  /\ kinds_table = EmptyDict
  /\ kinds_kind = "NUM"

PvIdle ==
  /\ pv_pc = "idle"
  /\ pv_lines = <<>>
  /\ pv_list = EmptyDict
  /\ CURRENT_PROPERTY = ""

-----------------------------------------------------------------------------
(***************************************************************************)
(* SpecHex: int_to_hex on a value, then from_str on a text.                *)
(***************************************************************************)

\* Half-width of the windows of values taken around each width boundary.
HexWindow == 6

\* Longest text handed to from_str directly.
MaxTextLen == 7

\* Values around 0, 0xFFFF, 0xFFFFF and 0x10FFFF (both sides of each), the
\* repdigits 0x11111 * k, and -1.
HexValues ==
  (-1 .. HexWindow)
    \cup ((65535 - HexWindow) .. (65535 + HexWindow))
    \cup ((1048575 - HexWindow) .. (1048575 + HexWindow))
    \cup ((max_code_point - HexWindow) .. (max_code_point + HexWindow))
    \cup {69905 * k : k \in 0..15}

TextAlphabet == {"0", "f", "G", " "}

RECURSIVE TextsOfLen(_)
TextsOfLen(n) ==
  IF n = 0 THEN {""}
  ELSE {c \o t : c \in TextAlphabet, t \in TextsOfLen(n - 1)}

HexTexts == UNION {TextsOfLen(n) : n \in 0..MaxTextLen}

HexInit ==
  /\ \/ /\ hex_pc = "start"
        /\ hex_value \in HexValues
        /\ hex_text = ""
     \/ /\ hex_pc = "formatted"
        /\ hex_value = -1
        /\ hex_text \in HexTexts
  /\ hex_result = ValueError
  /\ ChunkIdle /\ AliasIdle /\ UdIdle /\ RangeIdle /\ KindsIdle /\ PvIdle

\* hex_text = CodePoint.int_to_hex(hex_value)
HexFormat ==
  /\ hex_pc = "start"
  /\ hex_text' = int_to_hex(hex_value)
  /\ hex_pc' = "formatted"
  /\ UNCHANGED <<hex_value, hex_result, chunkVars, aliasVars, udVars, rangeVars, kindsVars,
                 pvVars>>

\* hex_result = CodePoint.from_str(hex_text)
HexParse ==
  /\ hex_pc = "formatted"
  /\ hex_result' = from_str(hex_text)
  /\ hex_pc' = "parsed"
  /\ UNCHANGED <<hex_value, hex_text, chunkVars, aliasVars, udVars, rangeVars, kindsVars,
                 pvVars>>

HexNext == HexFormat \/ HexParse

SpecHex == HexInit /\ [][HexNext]_vars

\* The characters a code point string may hold, written out.
HexDigitChars ==
  {"0","1","2","3","4","5","6","7","8","9",
   "A","B","C","D","E","F","a","b","c","d","e","f"}

UpperDigitChars ==
  {"0","1","2","3","4","5","6","7","8","9","A","B","C","D","E","F"}

\* C9: for every v in [0, 0x10FFFF], from_str(int_to_hex(v)) has value v;
\* int_to_hex(v) is uppercase hex of width 4 if v <= 0xFFFF, 5 if
\* v <= 0xFFFFF, else 6; and whatever from_str accepts is, once stripped,
\* 4 to 6 hex digits.
C9_RoundTrip ==
  hex_pc = "parsed" =>
    /\ (hex_value >= 0 /\ hex_value <= 1114111) =>
         /\ hex_result = [ok |-> TRUE, value |-> hex_value]
         /\ Len(hex_text) = (IF hex_value <= 65535 THEN 4
                             ELSE IF hex_value <= 1048575 THEN 5 ELSE 6)
         /\ \A i \in 1..Len(hex_text) :
              SubSeq(hex_text, i, i) \in UpperDigitChars
    /\ hex_result.ok =>
         \E a \in 0..Len(hex_text), b \in 0..Len(hex_text) :
           /\ b - a \in 4..6
           /\ \A i \in 1..Len(hex_text) :
                IF i > a /\ i <= b
                THEN SubSeq(hex_text, i, i) \in HexDigitChars
                ELSE SubSeq(hex_text, i, i) \in {" ", "\t", "\n", "\r"}
    /\ hex_result.ok => hex_result.value \in 0..1114111

\* C9 witness: a six-digit code point went through both conversions.
C9_Witness ==
  /\ hex_pc = "parsed"
  /\ hex_value = 1114111
  /\ hex_text = "10FFFF"
  /\ hex_result.ok

-----------------------------------------------------------------------------
(***************************************************************************)
(* colt.py: chunk, and SpecChunk, one run of the generator.                *)
(***************************************************************************)

\* Longest list handed to chunk.
MaxListLen == 5

\* Largest chunk count handed to chunk.
MaxChunks == 4

\* l[a:b] for 0 <= a, 0 <= b: Python clamps both ends to len(l).
PySlice(l, a, b) ==
  LET lo == Min(a, Len(l))
      hi == Min(b, Len(l))
  IN  IF hi <= lo THEN <<>> ELSE SubSeq(l, lo + 1, hi)

\* The slice a chunker without the remainder rule would yield.
chunk_slice_no_remainder(l, n, i) ==
  LET d == Len(l) \div n IN PySlice(l, d * i, d * i + d)

\* The i-th value chunk(l, n) yields: d, r = divmod(len(l), n), then
\* si = (d+1)*(i if i < r else r) + d*(0 if i < r else i - r) and
\* l[si : si + (d+1 if i < r else d)].
chunk_slice(l, n, i) ==
  LET d  == Len(l) \div n
      r  == Len(l) % n
      si == (d + 1) * (IF i < r THEN i ELSE r)
              + d * (IF i < r THEN 0 ELSE i - r)
  IN  PySlice(l, si, si + (IF i < r THEN d + 1 ELSE d))

ChunkElems == {"a", "b"}

ChunkLists == UNION {[1..k -> ChunkElems] : k \in 0..MaxListLen}

ChunkInit ==
  /\ chunk_pc = "run"
  /\ chunk_l \in ChunkLists
  /\ chunk_n \in 1..MaxChunks
  /\ chunk_i = 0
  /\ chunk_out = <<>>
  /\ HexIdle /\ AliasIdle /\ UdIdle /\ RangeIdle /\ KindsIdle /\ PvIdle

\* One iteration of "for i in range(n)": the generator yields a chunk.
ChunkYield ==
  /\ chunk_pc = "run"
  /\ chunk_i < chunk_n
  /\ chunk_out' = Append(chunk_out, chunk_slice(chunk_l, chunk_n, chunk_i))
  /\ chunk_i' = chunk_i + 1
  /\ UNCHANGED <<chunk_pc, chunk_l, chunk_n, hexVars, aliasVars, udVars, rangeVars, kindsVars,
                 pvVars>>

\* range(n) is exhausted: the generator returns.
ChunkStop ==
  /\ chunk_pc = "run"
  /\ chunk_i = chunk_n
  /\ chunk_pc' = "done"
  /\ UNCHANGED <<chunk_l, chunk_n, chunk_i, chunk_out, hexVars, aliasVars, udVars, rangeVars,
                 kindsVars, pvVars>>

ChunkNext == ChunkYield \/ ChunkStop

SpecChunk == ChunkInit /\ [][ChunkNext]_vars

RECURSIVE Concat(_)
Concat(ss) == IF Len(ss) = 0 THEN <<>> ELSE Head(ss) \o Concat(Tail(ss))

RECURSIVE SumLen(_)
SumLen(ss) == IF Len(ss) = 0 THEN 0 ELSE Len(Head(ss)) + SumLen(Tail(ss))

-----------------------------------------------------------------------------
(***************************************************************************)
(* parseunicode.py: parse_propertyaliases, and SpecAlias, which feeds it   *)
(* records one at a time.  A record is the list split: the fields of one   *)
(* line of PropertyAliases.txt, split on ';' and stripped.                 *)
(***************************************************************************)

DEPRECATED_PROPERTIES == {"isc", "ISO_Comment", "Script_Extensions", "scx"}

\* Most records fed to parse_propertyaliases in one run.
MaxAliasLines == 2

\* The loop body with every name mapped to split[1] instead of split[0].
alias_line_maps_to_second(table, split) ==
  IF split[1] \in DEPRECATED_PROPERTIES \/ split[2] \in DEPRECATED_PROPERTIES
  THEN table
  ELSE DictUpdate(table, [k \in {split[i] : i \in 1..Len(split)} |-> split[2]])

\* The loop body of parse_propertyaliases on one record: NAME = split[0],
\* VALUE = split[1]; a deprecated NAME or VALUE skips the record; otherwise
\* NAME, VALUE and every further field are set to NAME.  (The writes all
\* store the same value, so their order does not matter.)
alias_line(table, split) ==
  IF split[1] \in DEPRECATED_PROPERTIES \/ split[2] \in DEPRECATED_PROPERTIES
  THEN table
  ELSE DictUpdate(table, [k \in {split[i] : i \in 1..Len(split)} |-> split[1]])

\* parse_propertyaliases over a whole file.
RECURSIVE parse_propertyaliases(_)
parse_propertyaliases(lines) ==
  IF Len(lines) = 0 THEN EmptyDict
  ELSE alias_line(parse_propertyaliases(SubSeq(lines, 1, Len(lines) - 1)),
                  lines[Len(lines)])

\* The strings the records of SpecAlias are made of: two property names,
\* an alias, and a deprecated name.
AliasNames == {"gc", "General_Category", "sc", "isc"}

\* Records of two or three fields.
AliasRecords == [1..2 -> AliasNames] \cup [1..3 -> AliasNames]

AliasInit ==
  /\ alias_pc = "lines"
  /\ alias_lines = <<>>
  /\ alias_table = EmptyDict
  /\ HexIdle /\ ChunkIdle /\ UdIdle /\ RangeIdle /\ KindsIdle /\ PvIdle

\* One iteration of "for line in colt.lines_of(...)".
AliasLine ==
  /\ alias_pc = "lines"
  /\ Len(alias_lines) < MaxAliasLines
  /\ \E split \in AliasRecords :
       /\ alias_table' = alias_line(alias_table, split)
       /\ alias_lines' = Append(alias_lines, split)
  /\ UNCHANGED <<alias_pc, hexVars, chunkVars, udVars, rangeVars, kindsVars, pvVars>>

\* The file is exhausted: return PROPERTY_LIST.
AliasReturn ==
  /\ alias_pc = "lines"
  /\ alias_pc' = "done"
  /\ UNCHANGED <<alias_lines, alias_table, hexVars, chunkVars, udVars, rangeVars, kindsVars,
                 pvVars>>

AliasNext == AliasLine \/ AliasReturn

SpecAlias == AliasInit /\ [][AliasNext]_vars

\* Whether the record's canonical name or abbreviation is deprecated.
IsDeprecatedRecord(split) ==
  split[1] \in DEPRECATED_PROPERTIES \/ split[2] \in DEPRECATED_PROPERTIES

Lists(split, name) == \E i \in 1..Len(split) : split[i] = name

\* C7 as claimed: every name listed on a non-deprecated record resolves to
\* the record's field at (Python) index 1.
C7_TargetIsIndex1 ==
  \A n \in 1..Len(alias_lines) :
    ~IsDeprecatedRecord(alias_lines[n]) =>
      \A i \in 1..Len(alias_lines[n]) :
        /\ alias_lines[n][i] \in DOMAIN alias_table
        /\ alias_table[alias_lines[n][i]] = alias_lines[n][2]

\* C7 as amended: every name listed on a non-deprecated record is a key,
\* and it resolves to the field at (Python) index 0 of the last
\* non-deprecated record that lists it; the table has no other key.
C7_TargetIsIndex0 ==
  /\ \A n \in 1..Len(alias_lines) :
       ~IsDeprecatedRecord(alias_lines[n]) =>
         \A i \in 1..Len(alias_lines[n]) :
           /\ alias_lines[n][i] \in DOMAIN alias_table
           /\ (\A m \in (n + 1)..Len(alias_lines) :
                 IsDeprecatedRecord(alias_lines[m])
                   \/ ~Lists(alias_lines[m], alias_lines[n][i]))
                => alias_table[alias_lines[n][i]] = alias_lines[n][1]
  /\ \A k \in DOMAIN alias_table :
       \E n \in 1..Len(alias_lines) :
         ~IsDeprecatedRecord(alias_lines[n]) /\ Lists(alias_lines[n], k)

\* C7 witness: a three-field record whose first two fields differ was read,
\* and its alias resolves to its first field.
C7_Witness ==
  /\ alias_pc = "done"
  /\ alias_lines = << <<"gc", "General_Category", "sc">> >>
  /\ alias_table["sc"] = "gc"
  /\ alias_table["General_Category"] = "gc"

\* C8 as claimed: for every key k, alias[k] is a key and
\* alias[alias[k]] = alias[k].
C8_Idempotent ==
  \A k \in DOMAIN alias_table :
    /\ alias_table[k] \in DOMAIN alias_table
    /\ alias_table[alias_table[k]] = alias_table[k]

\* C10 as claimed, for the alias table: no name listed on a deprecated
\* record is a key, and no key resolves to a deprecated property.
C10_DeprecatedNeverResolve ==
  /\ \A n \in 1..Len(alias_lines) :
       IsDeprecatedRecord(alias_lines[n]) =>
         \A i \in 1..Len(alias_lines[n]) :
           alias_lines[n][i] \notin DOMAIN alias_table
  /\ \A k \in DOMAIN alias_table :
       alias_table[k] \notin DEPRECATED_PROPERTIES

-----------------------------------------------------------------------------
(***************************************************************************)
(* parseunicode.py: parse_unicodedata.                                     *)
(*                                                                         *)
(* The normaliser is checked over the code space 0..TableMax in place of   *)
(* 0..0x10FFFF: TableMax stands where the code calls                       *)
(* CodePoint.max_code_point().                                             *)
(***************************************************************************)

\* The largest code point of the scaled code space.
TableMax == 5

\* UNICODE_DATA_PROPERTIES: the property of each column after the code point.
UNICODE_DATA_PROPERTIES ==
  << "Name",
     "General_Category",
     "Canonical_Combining_Class",
     "Bidi_Class",
     "Decomposition_Type",
     "Numeric_Type",
     "Numeric_Value",
     "Numeric_Value",
     "Bidi_Mirrored",
     "Unicode_1_Name",
     "ISO_Comment",
     "Simple_Uppercase_Mapping",
     "Simple_Lowercase_Mapping",
     "Simple_Titlecase_Mapping" >>

\* The records of PropertyAliases.txt (UCD 16.0.0) for the properties the
\* normaliser looks up: abbreviation first, then the long name and aliases.
PropertyAliasesTxt ==
  << <<"Dash", "Dash">>,
     <<"WSpace", "White_Space", "space">>,
     <<"bc", "Bidi_Class">>,
     <<"Bidi_M", "Bidi_Mirrored">>,
     <<"ccc", "Canonical_Combining_Class">>,
     <<"dt", "Decomposition_Type">>,
     <<"gc", "General_Category">>,
     <<"isc", "ISO_Comment">>,
     <<"na", "Name">>,
     <<"na1", "Unicode_1_Name">>,
     <<"nt", "Numeric_Type">>,
     <<"nv", "Numeric_Value">>,
     <<"slc", "Simple_Lowercase_Mapping">>,
     <<"stc", "Simple_Titlecase_Mapping">>,
     <<"suc", "Simple_Uppercase_Mapping">> >>

\* PROPERTY_ALIAS = parse_propertyaliases()
PROPERTY_ALIAS == parse_propertyaliases(PropertyAliasesTxt)

\* Property.DEFAULT_VALUE: None, or (CodePointRange, str).
NoDefault == [has |-> FALSE, begin |-> 0, end |-> 0, token |-> ""]
Default(b, e, token) == [has |-> TRUE, begin |-> b, end |-> e, token |-> token]

\* The catalog of parse_propertyvalue for the main-table properties, with
\* the "# @missing" defaults of PropertyValueAliases.txt (UCD 16.0.0) over
\* the scaled code space.  Bidi_Class has several "# @missing" lines there
\* and keeps the last one read, whose range is a block, here 1..2.  The
\* default of General_Category is the parameter.
Catalog(gcDefault) ==
  [a \in {"na", "gc", "ccc", "bc", "dt", "nt", "nv", "Bidi_M", "na1",
          "suc", "slc", "stc"} |->
     [NAME |-> a,
      DEFAULT_VALUE |->
        CASE a = "gc"  -> gcDefault
          [] a = "ccc" -> Default(0, TableMax, "Not_Reordered")
          [] a = "bc"  -> Default(1, 2, "Right_To_Left")
          [] a = "dt"  -> Default(0, TableMax, "None")
          [] a = "nt"  -> Default(0, TableMax, "None")
          [] a = "nv"  -> Default(0, TableMax, "NaN")
          [] a = "Bidi_M" -> Default(0, TableMax, "No")
          [] a \in {"na", "na1"} -> Default(0, TableMax, "<none>")
          [] OTHER -> Default(0, TableMax, "<code point>")]]

\* The catalogs a run may start from: General_Category with its default
\* over the whole code space, with a default over 0..1 only, with none.
Catalogs ==
  { Catalog(Default(0, TableMax, "Unassigned")),
    Catalog(Default(0, 1, "Unassigned")),
    Catalog(NoDefault) }

\* An entry of parse_properties(): (CodePointRange, property, value), the
\* value being the two characters after "# " on the line of PropList.txt.
BinaryEntry(b, e, prope, value) ==
  [range |-> [begin |-> b, end |-> e], prope |-> prope, value |-> value]

\* The binary property lists a run may start from.
BinaryLists ==
  { <<>>,
    << BinaryEntry(1, 2, "White_Space", "Cc") >>,
    << BinaryEntry(0, 1, "Dash", "Pd"),
       BinaryEntry(TableMax, TableMax, "White_Space", "Zs") >>,
    << BinaryEntry(2, 3, "White_Space", "Cc"),
       BinaryEntry(3, TableMax, "White_Space", "Zs") >> }

\* The 14 fields of a line after its code point; the columns not named
\* are empty.
Fields(name, gc, nv7, nv8, suc) ==
  <<name, gc, "", "", "", "", nv7, nv8, "", "", "", suc, "", "">>

\* The lines of UnicodeData.txt a run may read for code point n: a plain
\* record with some columns filled, and the two records of a range.
UnicodeDataLines(n) ==
  { [cp |-> int_to_hex(n), split |-> f] :
      f \in { Fields("LATIN CAPITAL LETTER A", "Lu", "1", "", "0041"),
              Fields("<CJK Ideograph, First>", "Lo", "", "", ""),
              Fields("<CJK Ideograph, Last>", "Lo", "", "", "") } }

\* Lines of UnicodeData.txt that are not well formed, for code point n: one
\* field too many, one field too few, only the first four fields, and three
\* code point texts from_str rejects (no hex digit string, too short, beyond
\* 10FFFF).
MalformedLines(n) ==
  LET plain == Fields("LATIN CAPITAL LETTER A", "Lu", "1", "", "0041")
  IN  { [cp |-> int_to_hex(n), split |-> f] :
          f \in { Append(plain, ""),
                  SubSeq(plain, 1, Len(plain) - 1),
                  SubSeq(plain, 1, 3) } }
      \cup { [cp |-> t, split |-> plain] : t \in {"00G1", "41", "110000"} }

\* str.endswith
endswith(s, suffix) ==
  /\ Len(s) >= Len(suffix)
  /\ SubSeq(s, Len(s) - Len(suffix) + 1, Len(s)) = suffix

\* The range test on the name of a First record instead.
is_range_end_first(name) == endswith(name, ", First>")

\* current.get("Name").endswith(", Last>")
is_range_end(name) == endswith(name, ", Last>")

\* CodePointRange.__contains__ on a default's range.
InRange(d, value) == d.begin <= value /\ value <= d.end

\* default_to_true_default: CONV is built from the CODE_POINT of the
\* enclosing scope, whose value is cpv.
default_to_true_default(default, cpv) ==
  CASE default = "<code point>" -> int_to_hex(cpv)
    [] default = "<none>"       -> None
    [] default = "NaN"          -> None
    [] default = "Unassigned"   -> "Cn"
    [] OTHER                    -> default

\* The columns that are not deprecated, in table order.
LiveColumns ==
  SelectSeq([i \in 1..Len(UNICODE_DATA_PROPERTIES) |-> i],
            LAMBDA i : UNICODE_DATA_PROPERTIES[i] \notin DEPRECATED_PROPERTIES)

\* split[i] raises IndexError for a column i the line does not have; the
\* loop reads every column of UNICODE_DATA_PROPERTIES that is not
\* deprecated, the last one included.
IndexError(split) ==
  \E k \in 1..Len(LiveColumns) : LiveColumns[k] > Len(split)

\* The value the per-record loop gives column i: the raw text when it is
\* not empty, else the default when the code point is in its range.
column_value(catalog, cpv, split, i) ==
  LET default == catalog[PROPERTY_ALIAS[UNICODE_DATA_PROPERTIES[i]]].DEFAULT_VALUE
  IN  IF Len(split[i]) # 0 THEN split[i]
      ELSE IF default.has /\ InRange(default, cpv)
      THEN default_to_true_default(default.token, cpv)
      ELSE None

\* The loop "for i in range(0, len(UNICODE_DATA_PROPERTIES))" of the
\* per-record code over the first n live columns: a later column of the
\* same property overwrites an earlier one.
RECURSIVE record_properties(_, _, _, _)
record_properties(catalog, cpv, split, n) ==
  IF n = 0 THEN EmptyDict
  ELSE DictSet(record_properties(catalog, cpv, split, n - 1),
               PROPERTY_ALIAS[UNICODE_DATA_PROPERTIES[LiveColumns[n]]],
               column_value(catalog, cpv, split, LiveColumns[n]))

\* other_properties: every property of BINARY_PROPERTY seeded to 'N'.
other_properties(binary) ==
  [a \in {PROPERTY_ALIAS[binary[i].prope] : i \in 1..Len(binary)} |-> "N"]

\* default_properties(): the default of every live column whatever its
\* range (the range test is commented out in the code), resolved against
\* the CODE_POINT of the line being read when it is first called.
RECURSIVE default_properties(_, _, _)
default_properties(catalog, cpv, n) ==
  IF n = 0 THEN EmptyDict
  ELSE LET a == PROPERTY_ALIAS[UNICODE_DATA_PROPERTIES[LiveColumns[n]]]
           default == catalog[a].DEFAULT_VALUE
       IN  DictSet(default_properties(catalog, cpv, n - 1), a,
                   IF default.has
                   THEN default_to_true_default(default.token, cpv)
                   ELSE None)

\* A CodePoint object (boxed), or the bare int the tail fill stores.
Boxed(value) == [boxed |-> TRUE, value |-> value]
Bare(value)  == [boxed |-> FALSE, value |-> value]

\* CodePointInfo(CODE_POINT, PROPERTIES): PROPERTIES is a reference.
CodePointInfo(cp, ref) == [CODE_POINT |-> cp, PROPERTIES |-> ref]

\* [dataclasses.replace(current, CODE_POINT=CodePoint(i + 1))
\*    for i in range(previous_cp, CODE_POINT.value)]:
\* every copy keeps current's PROPERTIES reference.
run_records(ref, previous_cp, cpv) ==
  [k \in 1..(cpv - previous_cp) |-> CodePointInfo(Boxed(previous_cp + k), ref)]

\* [CodePointInfo(CodePoint(i), default_properties())
\*    for i in range(previous_cp + 1, CODE_POINT.value)]:
\* default_properties() is memoized, so every record holds the same dict.
gap_records(dref, previous_cp, cpv) ==
  [k \in 1..(cpv - previous_cp - 1) |-> CodePointInfo(Boxed(previous_cp + k), dref)]

\* The tail fill stopping one record early.
RECURSIVE tail_fill_short(_)
tail_fill_short(l) ==
  IF Len(l) < TableMax + 1
  THEN tail_fill_short(Append(l, CodePointInfo(Bare(Len(l) - 1), l[Len(l)].PROPERTIES)))
  ELSE l

\* A tail fill that gives every tail record the dict of the first record of
\* the list instead of the last one's.
RECURSIVE tail_fill_from_first(_)
tail_fill_from_first(l) ==
  IF Len(l) <= TableMax + 1
  THEN tail_fill_from_first(Append(l, CodePointInfo(Bare(Len(l) - 1), l[1].PROPERTIES)))
  ELSE l

\* while len(CODE_POINT_LIST) <= CodePoint.max_code_point() + 1:
\*   CODE_POINT_LIST.append(
\*     CodePointInfo(len(CODE_POINT_LIST) - 1, CODE_POINT_LIST[-1].PROPERTIES))
RECURSIVE tail_fill(_)
tail_fill(l) ==
  IF Len(l) <= TableMax + 1
  THEN tail_fill(Append(l, CodePointInfo(Bare(Len(l) - 1), l[Len(l)].PROPERTIES)))
  ELSE l

UdInit ==
  /\ pc = "lines"
  /\ PROPERTY_LIST \in Catalogs
  /\ BINARY_PROPERTY \in BinaryLists
  /\ CODE_POINT_LIST = << CodePointInfo(Boxed(-1), 1) >>
  /\ heap = << EmptyDict >>
  /\ default_memo = 0
  /\ input = <<>>
  /\ file_lines = "wellformed"
  /\ overlay_i = 0
  /\ overlay_j = 0
  /\ HexIdle /\ ChunkIdle /\ AliasIdle /\ RangeIdle /\ KindsIdle /\ PvIdle

\* The same set-up for a UnicodeData.txt that may hold malformed lines too,
\* with one catalog and one Binary Property List.
UdInitAnyLine ==
  /\ pc = "lines"
  /\ PROPERTY_LIST = Catalog(Default(0, TableMax, "Unassigned"))
  /\ BINARY_PROPERTY = << BinaryEntry(1, 2, "White_Space", "Cc") >>
  /\ CODE_POINT_LIST = << CodePointInfo(Boxed(-1), 1) >>
  /\ heap = << EmptyDict >>
  /\ default_memo = 0
  /\ input = <<>>
  /\ file_lines = "any"
  /\ overlay_i = 0
  /\ overlay_j = 0
  /\ HexIdle /\ ChunkIdle /\ AliasIdle /\ RangeIdle /\ KindsIdle /\ PvIdle

\* The body of "for line in colt.lines_of(PATH_UCD + 'UnicodeData.txt')" on
\* one line.  An exception leaves parse_unicodedata without a result.
ParseLine ==
  /\ pc = "lines"
  /\ \E n \in (CODE_POINT_LIST[Len(CODE_POINT_LIST)].CODE_POINT.value + 1)..TableMax :
     \E line \in UnicodeDataLines(n)
                   \cup (IF file_lines = "any" THEN MalformedLines(n) ELSE {}) :
       LET CODE_POINT  == from_str(line.cp)
           cpv         == CODE_POINT.value
           PROPERTIES  == DictUpdate(
                            record_properties(PROPERTY_LIST, cpv, line.split,
                                              Len(LiveColumns)),
                            other_properties(BINARY_PROPERTY))
           ref         == Len(heap) + 1
           heap1       == Append(heap, PROPERTIES)
           current     == CodePointInfo(Boxed(cpv), ref)
           previous_cp == CODE_POINT_LIST[Len(CODE_POINT_LIST)].CODE_POINT.value
           name        == PROPERTIES[PROPERTY_ALIAS["Name"]]
           dref        == IF default_memo = 0 THEN Len(heap1) + 1 ELSE default_memo
       IN
       /\ input' = Append(input, line)
       /\ IF \/ ~CODE_POINT.ok
             \/ IndexError(line.split)
             \/ (cpv # previous_cp + 1 /\ name = None)
          THEN /\ pc' = "error"
               /\ UNCHANGED <<CODE_POINT_LIST, heap, default_memo>>
          ELSE /\ pc' = pc
               /\ IF cpv # previous_cp + 1
                  THEN IF is_range_end(name)
                       THEN /\ CODE_POINT_LIST' =
                                 CODE_POINT_LIST \o run_records(ref, previous_cp, cpv)
                            /\ heap' = heap1
                            /\ UNCHANGED default_memo
                       ELSE /\ CODE_POINT_LIST' =
                                 Append(CODE_POINT_LIST
                                          \o gap_records(dref, previous_cp, cpv),
                                        current)
                            /\ heap' =
                                 IF default_memo = 0
                                 THEN Append(heap1,
                                             default_properties(PROPERTY_LIST, cpv,
                                                                Len(LiveColumns)))
                                 ELSE heap1
                            /\ default_memo' = dref
                  ELSE /\ CODE_POINT_LIST' = Append(CODE_POINT_LIST, current)
                       /\ heap' = heap1
                       /\ UNCHANGED default_memo
  /\ UNCHANGED <<PROPERTY_LIST, BINARY_PROPERTY, file_lines, overlay_i, overlay_j,
                 hexVars, chunkVars, aliasVars, rangeVars, kindsVars, pvVars>>

\* The input is exhausted: the tail fill, then CODE_POINT_LIST[1:] drops
\* the record of code point -1, and the overlay pass starts.
EndOfInput ==
  /\ pc = "lines"
  /\ CODE_POINT_LIST' = Tail(tail_fill(CODE_POINT_LIST))
  /\ pc' = "overlay"
  /\ overlay_i' = 0
  /\ overlay_j' = IF Len(BINARY_PROPERTY) > 0
                  THEN BINARY_PROPERTY[1].range.begin ELSE 0
  /\ UNCHANGED <<PROPERTY_LIST, BINARY_PROPERTY, heap, default_memo, input,
                 file_lines, hexVars, chunkVars, aliasVars, rangeVars,
                 kindsVars, pvVars>>

\* An overlay pass that stores the entry's own value.
overlay_value_of_entry(current) == current.value

\* The value the overlay pass stores for an entry: 'Y', whatever the entry.
overlay_value(current) == "Y"

\* One iteration of the inner loop of the overlay pass:
\*   CODE_POINT_LIST[j].PROPERTIES[PROPERTY_ALIAS[current[1]]] = 'Y'
\* and the step of "for j" / "for i" to the next iteration.
OverlayWrite ==
  /\ pc = "overlay"
  /\ overlay_i < Len(BINARY_PROPERTY)
  /\ LET current == BINARY_PROPERTY[overlay_i + 1]
         abrv    == PROPERTY_ALIAS[current.prope]
         ref     == CODE_POINT_LIST[overlay_j + 1].PROPERTIES
     IN  /\ heap' = [heap EXCEPT ![ref] = DictSet(@, abrv, overlay_value(current))]
         /\ IF overlay_j < current.range.end
            THEN /\ overlay_j' = overlay_j + 1
                 /\ UNCHANGED overlay_i
            ELSE /\ overlay_i' = overlay_i + 1
                 /\ overlay_j' = IF overlay_i + 1 < Len(BINARY_PROPERTY)
                                 THEN BINARY_PROPERTY[overlay_i + 2].range.begin
                                 ELSE 0
  /\ UNCHANGED <<pc, PROPERTY_LIST, BINARY_PROPERTY, CODE_POINT_LIST,
                 default_memo, input, file_lines, hexVars, chunkVars, aliasVars,
                 rangeVars, kindsVars, pvVars>>

\* The overlay pass is over: return CODE_POINT_LIST.
Return ==
  /\ pc = "overlay"
  /\ overlay_i = Len(BINARY_PROPERTY)
  /\ pc' = "done"
  /\ UNCHANGED <<PROPERTY_LIST, BINARY_PROPERTY, CODE_POINT_LIST, heap,
                 default_memo, input, file_lines, overlay_i, overlay_j,
                 hexVars, chunkVars, aliasVars, rangeVars, kindsVars, pvVars>>

Next == ParseLine \/ EndOfInput \/ OverlayWrite \/ Return

Spec == UdInit /\ [][Next]_vars

\* parse_unicodedata over a UnicodeData.txt that may hold malformed lines.
SpecAnyLine == UdInitAnyLine /\ [][Next]_vars

-----------------------------------------------------------------------------
(***************************************************************************)
(* The normaliser's properties.                                            *)
(***************************************************************************)

\* The record of code point c in the table once the sentinel is dropped,
\* and its property mapping.
Rec(c) == CODE_POINT_LIST[c + 1]
Props(c) == heap[Rec(c).PROPERTIES]

\* The code point of the n-th line read.
LineCp(n) == hexint(input[n].cp)

\* The Name field of the n-th line read.
LineName(n) == input[n].split[1]

\* Lines n and n+1 are the two records of a range.
IsRun(n) ==
  /\ n + 1 <= Len(input)
  /\ endswith(LineName(n), ", First>")
  /\ endswith(LineName(n + 1), ", Last>")

\* The abbreviations of the main table's columns.
MainAbbreviations ==
  {"na", "gc", "ccc", "bc", "dt", "nt", "nv", "Bidi_M", "na1", "suc", "slc", "stc"}

\* C1: for a main table whose code points are strictly increasing and lie
\* in the code space, the returned table has one record per code point of
\* the code space and the record at index i carries code point i.
C1_TableComplete ==
  pc = "done" =>
    /\ Len(CODE_POINT_LIST) = TableMax + 1
    /\ \A i \in 0..TableMax : CODE_POINT_LIST[i + 1].CODE_POINT.value = i

\* C1 witness: a table built by a gap fill (0), a line after the gap (1), a
\* contiguous append (2), a range expansion (3..4) and a tail fill (5).
C1_Witness ==
  /\ pc = "done"
  /\ Len(input) = 3
  /\ LineCp(1) = 1 /\ LineCp(2) = 2 /\ LineCp(3) = 4
  /\ IsRun(2)
  /\ Len(CODE_POINT_LIST) = 6
  /\ Rec(0).PROPERTIES = default_memo
  /\ Rec(3).PROPERTIES = Rec(4).PROPERTIES
  /\ ~Rec(5).CODE_POINT.boxed

\* C2: given a First record at X followed by a Last record at Y > X, every
\* main-table property P on which the two records agree, P = p, has P = p at
\* every code point of [X, Y] in the final table (the General_Category both
\* lines spell out in particular), and no code point of (X, Y] holds the
\* default-built record of the gaps.
C2_RangeRun ==
  pc = "done" =>
    \A n \in 1..Len(input) :
      (IsRun(n) /\ LineCp(n + 1) > LineCp(n)) =>
        \A c \in LineCp(n)..LineCp(n + 1) :
          /\ \A P \in MainAbbreviations :
               (/\ P \in DOMAIN Props(LineCp(n))
                /\ P \in DOMAIN Props(LineCp(n + 1))
                /\ Props(LineCp(n))[P] = Props(LineCp(n + 1))[P])
               => /\ P \in DOMAIN Props(c)
                  /\ Props(c)[P] = Props(LineCp(n))[P]
          /\ (input[n].split[2] = input[n + 1].split[2] /\ input[n].split[2] # "")
               => /\ "gc" \in DOMAIN Props(c)
                  /\ Props(c)["gc"] = input[n].split[2]
          /\ c > LineCp(n) => Rec(c).PROPERTIES # default_memo

\* C2 witness: a range with code points strictly between its First and its
\* Last record was expanded, after a gap had been filled with defaults.
C2_Witness ==
  /\ pc = "done"
  /\ default_memo # 0
  /\ \E n \in 1..Len(input) :
       /\ IsRun(n)
       /\ LineCp(n + 1) >= LineCp(n) + 2
       /\ Props(LineCp(n) + 1)["gc"] = "Lo"

\* Code point c lies in the range of some entry of the Binary Property
\* List for the property abbreviated P.
Listed(P, c) ==
  \E k \in 1..Len(BINARY_PROPERTY) :
    /\ PROPERTY_ALIAS[BINARY_PROPERTY[k].prope] = P
    /\ BINARY_PROPERTY[k].range.begin <= c
    /\ c <= BINARY_PROPERTY[k].range.end

\* C3 as claimed, for a main table that is not empty: in the final table
\* every property P of the Binary Property List that is no main-table column
\* has, at every code point c, P = 'Y' if c lies in the range of some entry
\* for P and P = 'N' otherwise.
C3_BinarySeedAndOverlay ==
  (pc = "done" /\ Len(input) > 0) =>
    \A k \in 1..Len(BINARY_PROPERTY) :
      LET P == PROPERTY_ALIAS[BINARY_PROPERTY[k].prope] IN
      P \notin MainAbbreviations =>
        \A c \in 0..TableMax :
          /\ P \in DOMAIN Props(c)
          /\ Props(c)[P] = (IF Listed(P, c) THEN "Y" ELSE "N")

\* C4 as claimed: with the default of General_Category declared over the
\* whole code space and a main table of one record of category 'Lu', the
\* final table has 'Lu' at that code point and the declared default (the
\* token, or the code it converts to) at every other code point.
C4_EndToEnd ==
  (/\ pc = "done"
   /\ PROPERTY_LIST["gc"].DEFAULT_VALUE = Default(0, TableMax, "Unassigned")
   /\ Len(input) = 1
   /\ input[1].split[2] = "Lu")
  => /\ Props(LineCp(1))["gc"] = "Lu"
     /\ \A c \in 0..TableMax :
          c # LineCp(1) =>
            /\ "gc" \in DOMAIN Props(c)
            /\ Props(c)["gc"] \in {"Cn", "Unassigned"}

\* Code point c has a record of its own in the input.
Explicit(c) == \E n \in 1..Len(input) : LineCp(n) = c

\* Code point c lies after the First and up to the Last record of a range.
InRun(c) ==
  \E n \in 1..Len(input) :
    IsRun(n) /\ LineCp(n) < c /\ c <= LineCp(n + 1)

\* C5 as claimed, for a main table that is not empty: every code point with
\* no record of its own, outside every First/Last range, at which no default
\* of General_Category applies, has General_Category 'Cn' in the final table.
C5_GapDefault ==
  (pc = "done" /\ Len(input) > 0) =>
    \A c \in 0..TableMax :
      (/\ ~Explicit(c)
       /\ ~InRun(c)
       /\ ~(PROPERTY_LIST["gc"].DEFAULT_VALUE.has
              /\ InRange(PROPERTY_LIST["gc"].DEFAULT_VALUE, c)))
      => /\ "gc" \in DOMAIN Props(c)
         /\ Props(c)["gc"] = "Cn"

\* Entries i < k of the Binary Property List name the same property, and
\* code point c lies in both ranges.
Overlap(i, k, c) ==
  /\ i < k
  /\ PROPERTY_ALIAS[BINARY_PROPERTY[i].prope] = PROPERTY_ALIAS[BINARY_PROPERTY[k].prope]
  /\ BINARY_PROPERTY[i].range.begin <= c /\ c <= BINARY_PROPERTY[i].range.end
  /\ BINARY_PROPERTY[k].range.begin <= c /\ c <= BINARY_PROPERTY[k].range.end

\* The overlay pass has gone through code point c of entry k.
Overlaid(k, c) ==
  /\ pc \in {"overlay", "done"}
  /\ BINARY_PROPERTY[k].range.begin <= c /\ c <= BINARY_PROPERTY[k].range.end
  /\ \/ pc = "done"
     \/ k <= overlay_i
     \/ k = overlay_i + 1 /\ c < overlay_j

\* C11 as claimed: where two entries for the same property overlap and
\* their values differ, the final table holds the value of the
\* later-declared entry on the overlap.
C11_LaterValueWins ==
  pc = "done" =>
    \A i \in 1..Len(BINARY_PROPERTY), k \in 1..Len(BINARY_PROPERTY) :
      \A c \in 0..TableMax :
        (Overlap(i, k, c) /\ BINARY_PROPERTY[i].value # BINARY_PROPERTY[k].value)
          => Props(c)[PROPERTY_ALIAS[BINARY_PROPERTY[k].prope]]
               = BINARY_PROPERTY[k].value

\* C11 as amended: the overlay pass goes through the entries in declaration
\* order and through each range in increasing order, and what it stores is
\* 'Y' whatever the entry's value: every code point it has gone through has
\* 'Y', the overlap of two entries included, and the pass never goes back.
C11_OverlayInOrder ==
  /\ \A k \in 1..Len(BINARY_PROPERTY) :
       \A c \in 0..TableMax :
         Overlaid(k, c) =>
           /\ PROPERTY_ALIAS[BINARY_PROPERTY[k].prope] \in DOMAIN Props(c)
           /\ Props(c)[PROPERTY_ALIAS[BINARY_PROPERTY[k].prope]] = "Y"
  /\ (pc = "overlay" /\ overlay_i < Len(BINARY_PROPERTY)) =>
       /\ BINARY_PROPERTY[overlay_i + 1].range.begin <= overlay_j
       /\ overlay_j <= BINARY_PROPERTY[overlay_i + 1].range.end

\* C11 witness: two entries for White_Space with different values overlap at
\* code point 3, and the final table has 'Y' there.
C11_Witness ==
  /\ pc = "done"
  /\ Len(input) > 0
  /\ Len(BINARY_PROPERTY) = 2
  /\ Overlap(1, 2, 3)
  /\ BINARY_PROPERTY[1].value # BINARY_PROPERTY[2].value
  /\ Props(3)["WSpace"] = "Y"

\* The line read at code point c gives a non-empty raw text in a column of
\* property P.
RawGiven(c, P) ==
  \E n \in 1..Len(input) :
    /\ LineCp(n) = c
    /\ \E k \in 1..Len(LiveColumns) :
         /\ PROPERTY_ALIAS[UNICODE_DATA_PROPERTIES[LiveColumns[k]]] = P
         /\ Len(input[n].split[LiveColumns[k]]) # 0

\* The value of P at code point c comes from the default token "<code point>":
\* the record has a value for P, no raw text of its own gives it, and the
\* descriptor's default is that token.
FromCodePointToken(c, P) ==
  /\ P \in DOMAIN Props(c)
  /\ Props(c)[P] # None
  /\ ~RawGiven(c, P)
  /\ PROPERTY_LIST[P].DEFAULT_VALUE.has
  /\ PROPERTY_LIST[P].DEFAULT_VALUE.token = "<code point>"

\* C13 as claimed, for a main table that is not empty: a value taken from
\* the default token "<code point>" is the canonical hex string of the
\* record's own code point, for explicit records and for the records of a
\* range, a gap and the tail.
C13_OwnCodePoint ==
  (pc = "done" /\ Len(input) > 0) =>
    \A c \in 0..TableMax :
      \A P \in {"suc", "slc", "stc"} :
        FromCodePointToken(c, P) => Props(c)[P] = int_to_hex(c)

\* What the field-resolution order gives property A of the record read at
\* line n from column i alone.
ResolvedField(n, i) ==
  LET default == PROPERTY_LIST[PROPERTY_ALIAS[UNICODE_DATA_PROPERTIES[i]]].DEFAULT_VALUE
      raw     == input[n].split[i]
  IN  IF Len(raw) # 0 THEN raw
      ELSE IF default.has /\ InRange(default, LineCp(n))
      THEN default_to_true_default(default.token, LineCp(n))
      ELSE None

\* C14 as claimed: for the record read at code point c and every column of
\* the main table that is not deprecated, the property the column maps to has
\* the raw text when it is not empty (no later column replaces it); when no
\* column of the property has a raw text, it has the resolved default when c
\* is in the default's range, else no value.
C14_FieldResolution ==
  pc = "done" =>
    \A n \in 1..Len(input) :
      \A k \in 1..Len(LiveColumns) :
        LET i == LiveColumns[k]
            A == PROPERTY_ALIAS[UNICODE_DATA_PROPERTIES[i]]
        IN  (Len(input[n].split[i]) # 0 \/ ~RawGiven(LineCp(n), A)) =>
              Props(LineCp(n))[A] = ResolvedField(n, i)

\* The code point of the last record the line loop left in the table: the
\* last line's, or the sentinel's -1 when the main table is empty.
LastCp == IF Len(input) = 0 THEN -1 ELSE LineCp(Len(input))

C20_IndependentRecords ==
  [][(pc = "overlay" /\ pc' = "overlay" /\ Len(input) > 0) =>
       \A c \in 0..TableMax : c # overlay_j => Props(c)' = Props(c)]_vars

\* C19 as claimed: a malformed line of the main table (a column count other
\* than the 14 columns of the layout, too few or too many, or a code point
\* text that does not parse or is out of range) aborts the run: when
\* parse_unicodedata returns a table, every line it read was well formed.
C19_MalformedAborts ==
  pc \in {"overlay", "done"} =>
    \A n \in 1..Len(input) :
      /\ Len(input[n].split) = Len(UNICODE_DATA_PROPERTIES)
      /\ from_str(input[n].cp).ok

-----------------------------------------------------------------------------
(***************************************************************************)
(* colt.CodePointRange: the constructor, from_str and "in".                *)
(***************************************************************************)

\* The largest small code point value handed to the constructor.
RangeMax == 3

\* What a raised exception leaves: no range.
RangeError == [ok |-> FALSE, begin |-> 0, end |-> 0]

\* A constructor without the test of begin > end.
CodePointRange_unchecked(begin, end) ==
  [ok |-> TRUE, begin |-> begin.value, end |-> end.value]

\* CodePointRange.__init__ on two CodePoint objects: raises when begin > end
\* (the comparison of the dataclasses is the comparison of their values).
\* The f-string of the ValueError calls int_to_hex on a CodePoint, which
\* raises TypeError first: an exception either way.
CodePointRange(begin, end) ==
  IF begin.value > end.value
  THEN RangeError
  ELSE [ok |-> TRUE, begin |-> begin.value, end |-> end.value]

\* s is a string of 4 to 6 hex digits: CP_HEX_REGEX.
CP_HEX_REGEX(s) == CODE_POINT_FROM_STR(s)

\* CODE_POINT_RANGE_FROM_STR = ^(HEX)(?:..(HEX))?$ with group 1 of a
\* characters: either nothing follows, or any two characters (the dots are
\* not escaped) and a second HEX.
RangeMatchAt(s, a) ==
  /\ Len(s) >= a
  /\ CP_HEX_REGEX(SubSeq(s, 1, a))
  /\ \/ Len(s) = a
     \/ /\ Len(s) >= a + 2
        /\ CP_HEX_REGEX(SubSeq(s, a + 3, Len(s)))

\* The match of CODE_POINT_RANGE_FROM_STR: the quantifier {4,6} is greedy,
\* so group 1 is the longest prefix with which the whole string matches;
\* group 2 is None when the string ends after group 1.
CODE_POINT_RANGE_FROM_STR(s) ==
  IF \E a \in 4..6 : RangeMatchAt(s, a)
  THEN LET a == CHOOSE a \in 4..6 :
                  /\ RangeMatchAt(s, a)
                  /\ \A b \in 4..6 : RangeMatchAt(s, b) => b <= a
       IN  [matched |-> TRUE,
            group1 |-> SubSeq(s, 1, a),
            group2 |-> IF Len(s) = a THEN None ELSE SubSeq(s, a + 3, Len(s))]
  ELSE [matched |-> FALSE, group1 |-> None, group2 |-> None]

\* CodePointRange.from_str: no strip; a CodePoint beyond 10FFFF raises.
range_from_str(value) ==
  LET match == CODE_POINT_RANGE_FROM_STR(value) IN
  IF ~match.matched THEN RangeError
  ELSE IF match.group2 = None
  THEN LET tmp == CodePoint(hexint(match.group1))
       IN  IF tmp.ok THEN CodePointRange(tmp, tmp) ELSE RangeError
  ELSE LET b == CodePoint(hexint(match.group1))
           e == CodePoint(hexint(match.group2))
       IN  IF b.ok /\ e.ok THEN CodePointRange(b, e) ELSE RangeError

\* The hex strings the texts are made of, and the separators between them.
RangeHex ==
  { int_to_hex(v) : v \in 0..RangeMax } \cup {"10FFFF", "110000", "00g0"}

RangeSeparators == {"..", ".", "xx", ""}

\* The strings handed to from_str.
RangeTexts ==
  RangeHex \cup { h1 \o sep \o h2 : h1 \in RangeHex, sep \in RangeSeparators,
                                    h2 \in RangeHex }

\* The code points asked for with "in".
RangeKeys == 0..(RangeMax + 1) \cup {max_code_point}

RangeInit ==
  /\ \/ /\ range_pc = "direct"
        /\ range_begin \in 0..RangeMax
        /\ range_end \in 0..RangeMax
        /\ range_text = ""
     \/ /\ range_pc = "text"
        /\ range_begin = 0
        /\ range_end = 0
        /\ range_text \in RangeTexts
  /\ range_obj = RangeError
  /\ range_key = 0
  /\ range_in = FALSE
  /\ HexIdle /\ ChunkIdle /\ AliasIdle /\ UdIdle /\ KindsIdle /\ PvIdle

\* range_obj = CodePointRange(CodePoint(range_begin), CodePoint(range_end))
RangeConstruct ==
  /\ range_pc = "direct"
  /\ range_obj' = CodePointRange(CodePoint(range_begin), CodePoint(range_end))
  /\ range_pc' = IF range_obj'.ok THEN "built" ELSE "error"
  /\ UNCHANGED <<range_begin, range_end, range_text, range_key, range_in,
                 hexVars, chunkVars, aliasVars, udVars, kindsVars, pvVars>>

\* range_obj = CodePointRange.from_str(range_text)
RangeFromStr ==
  /\ range_pc = "text"
  /\ range_obj' = range_from_str(range_text)
  /\ range_pc' = IF range_obj'.ok THEN "built" ELSE "error"
  /\ UNCHANGED <<range_begin, range_end, range_text, range_key, range_in,
                 hexVars, chunkVars, aliasVars, udVars, kindsVars, pvVars>>

\* range_in = (CodePoint(key) in range_obj)
RangeContains ==
  /\ range_pc = "built"
  /\ \E key \in RangeKeys :
       /\ range_key' = key
       /\ range_in' = InRange(range_obj, CodePoint(key).value)
  /\ range_pc' = "tested"
  /\ UNCHANGED <<range_begin, range_end, range_text, range_obj,
                 hexVars, chunkVars, aliasVars, udVars, kindsVars, pvVars>>

RangeNext == RangeConstruct \/ RangeFromStr \/ RangeContains

SpecRange == RangeInit /\ [][RangeNext]_vars

\* C12: a CodePointRange built with begin > end, by the constructor or by
\* from_str on "B..E", always fails and leaves no range; with begin <= end
\* it is built with those ends; every range that exists has begin <= end;
\* and "c in range" is true exactly when begin <= c <= end.
C12_RangeInvariant ==
  /\ (range_pc \in {"built", "tested", "error"} /\ range_text = "") =>
       /\ range_begin > range_end => (range_pc = "error" /\ ~range_obj.ok)
       /\ range_begin <= range_end =>
            /\ range_obj = [ok |-> TRUE, begin |-> range_begin, end |-> range_end]
            /\ range_pc # "error"
  /\ range_pc \in {"built", "tested", "error"} =>
       \A b \in 0..RangeMax, e \in 0..RangeMax :
         range_text = int_to_hex(b) \o ".." \o int_to_hex(e) =>
           /\ b > e => (range_pc = "error" /\ ~range_obj.ok)
           /\ b <= e => (range_pc # "error"
                          /\ range_obj = [ok |-> TRUE, begin |-> b, end |-> e])
  /\ range_obj.ok => range_obj.begin <= range_obj.end
  /\ range_pc = "tested" =>
       range_in = (range_obj.begin <= range_key /\ range_key <= range_obj.end)

\* C12 witness: from_str was handed a range text whose begin is past its end
\* and raised.
C12_Witness ==
  /\ range_pc = "error"
  /\ range_text = "0003..0001"
  /\ ~range_obj.ok

-----------------------------------------------------------------------------
(***************************************************************************)
(* parseunicode.parse_propertytypes: the kind of every property name.      *)
(* PropertyKind is written "STR", "ENM", "NUM", "PTR".                     *)
(***************************************************************************)

\* The number of records of PropertyAliases.txt a run reads.
MaxKindLines == 2

\* TO_NEW_KIND = { "bmg" : PropertyKind.STR, "age" : PropertyKind.ENM }
TO_NEW_KIND == [bmg |-> "STR", age |-> "ENM"]

\* dict.update(table, {split[i] : kind}) for i = 1..n.
RECURSIVE types_record(_, _, _, _)
types_record(table, split, kind, n) ==
  IF n = 0 THEN table
  ELSE DictSet(types_record(table, split, kind, n - 1), split[n], kind)

\* A loop body that records the names with the kind of the lines before and
\* switches afterwards.
types_line_late(st, split) ==
  [table |-> types_record(st.table, split, st.kind, Len(split)),
   kind  |-> IF split[1] \in DOMAIN TO_NEW_KIND THEN TO_NEW_KIND[split[1]]
             ELSE st.kind]

\* The loop body of parse_propertytypes on one record, on the pair of the
\* table and the local variable kind: the switch of kind first, then every
\* field recorded with it.
types_line(st, split) ==
  LET kind == IF split[1] \in DOMAIN TO_NEW_KIND THEN TO_NEW_KIND[split[1]]
              ELSE st.kind
  IN  [table |-> types_record(st.table, split, kind, Len(split)),
       kind  |-> kind]

\* parse_propertytypes over the records of a file.
RECURSIVE parse_propertytypes(_)
parse_propertytypes(lines) ==
  IF Len(lines) = 0 THEN [table |-> EmptyDict, kind |-> "NUM"]
  ELSE types_line(parse_propertytypes(SubSeq(lines, 1, Len(lines) - 1)),
                  lines[Len(lines)])

\* The fields of the records, and the records: two or three fields.
KindNames == {"bmg", "age", "gc"}

KindRecords == [1..2 -> KindNames] \cup [1..3 -> KindNames]

KindsInit ==
  /\ kinds_pc = "lines"
  /\ kinds_lines = <<>>
  /\ kinds_table = EmptyDict
  /\ kinds_kind = "NUM"
  /\ HexIdle /\ ChunkIdle /\ AliasIdle /\ UdIdle /\ RangeIdle /\ PvIdle

\* The body of "for line in colt.lines_of(...)" on one record.
KindsLine ==
  /\ kinds_pc = "lines"
  /\ Len(kinds_lines) < MaxKindLines
  /\ \E split \in KindRecords :
       LET st == types_line([table |-> kinds_table, kind |-> kinds_kind], split)
       IN  /\ kinds_lines' = Append(kinds_lines, split)
           /\ kinds_table' = st.table
           /\ kinds_kind' = st.kind
  /\ UNCHANGED <<kinds_pc, hexVars, chunkVars, aliasVars, udVars, rangeVars, pvVars>>

\* return PROPERTY_LIST
KindsReturn ==
  /\ kinds_pc = "lines"
  /\ kinds_pc' = "done"
  /\ UNCHANGED <<kinds_lines, kinds_table, kinds_kind,
                 hexVars, chunkVars, aliasVars, udVars, rangeVars, pvVars>>

KindsNext == KindsLine \/ KindsReturn

SpecKinds == KindsInit /\ [][KindsNext]_vars

\* The records up to the n-th whose first field switches the kind.
Triggers(n) == { m \in 1..n : kinds_lines[m][1] \in {"bmg", "age"} }

\* The kind in force at the n-th record: that of the most recent record at
\* or before it whose first field is 'bmg' (String) or 'age' (Enumerated),
\* Numeric when there is none.
KindAt(n) ==
  IF Triggers(n) = {} THEN "NUM"
  ELSE LET m == CHOOSE m \in Triggers(n) : \A k \in Triggers(n) : k <= m
       IN  IF kinds_lines[m][1] = "bmg" THEN "STR" ELSE "ENM"

\* The records that list name k.
ListedAt(k) == { n \in 1..Len(kinds_lines) : Lists(kinds_lines[n], k) }

\* C16: the classification is a fold over the records in file order: every
\* name, abbreviation and alias of a record is a key of the table, each key's
\* kind is the kind in force at the last record that lists it (a switch
\* taking effect for its own record), and the local kind is the one in force
\* at the last record read.
C16_KindFold ==
  /\ kinds_kind = KindAt(Len(kinds_lines))
  /\ DOMAIN kinds_table = { k \in KindNames : ListedAt(k) # {} }
  /\ \A k \in DOMAIN kinds_table :
       kinds_table[k] =
         KindAt(CHOOSE n \in ListedAt(k) : \A m \in ListedAt(k) : m <= n)
  /\ kinds_table = parse_propertytypes(kinds_lines).table

\* C16 witness: 'age' is listed as an alias before any switch (Numeric), the
\* next record switches to String with 'bmg' as its first field and lists
\* 'gc' again, whose kind follows its last record.
C16_Witness ==
  /\ kinds_pc = "done"
  /\ kinds_lines = << <<"gc", "age">>, <<"bmg", "gc">> >>
  /\ kinds_table = [gc |-> "STR", age |-> "NUM", bmg |-> "STR"]

-----------------------------------------------------------------------------
(***************************************************************************)
(* parseunicode.parse_propertyvalue: the catalog of property descriptors,  *)
(* read from the lines of PropertyValueAliases.txt.                        *)
(***************************************************************************)

\* The number of lines of PropertyValueAliases.txt a run reads.
MaxPvLines == 4

\* str.startswith
startswith(s, prefix) ==
  /\ Len(s) >= Len(prefix)
  /\ SubSeq(s, 1, Len(prefix)) = prefix

\* "ch in s" for a character ch
contains(s, ch) == \E i \in 1..Len(s) : CharAt(s, i) = ch

\* The position of the first ch in s at or after position i, 0 when there
\* is none.
RECURSIVE find_from(_, _, _)
find_from(s, ch, i) ==
  IF i > Len(s) THEN 0
  ELSE IF CharAt(s, i) = ch THEN i
  ELSE find_from(s, ch, i + 1)

\* str.find(ch) + 1: the position of the first ch in s, 0 when there is none.
find(s, ch) == find_from(s, ch, 1)

\* s.split(ch)
RECURSIVE str_split(_, _)
str_split(s, ch) ==
  LET i == find(s, ch) IN
  IF i = 0 THEN << s >>
  ELSE << SubSeq(s, 1, i - 1) >> \o str_split(SubSeq(s, i + 1, Len(s)), ch)

\* [i.strip() for i in s.split(ch)]
split_strip(s, ch) ==
  LET parts == str_split(s, ch) IN [i \in 1..Len(parts) |-> strip(parts[i])]

UpperLetters == "ABCDEFGHIJKLMNOPQRSTUVWXYZ"
LowerLetters == "abcdefghijklmnopqrstuvwxyz"
Digits == "0123456789"

\* str.lower
RECURSIVE lower(_)
lower(s) ==
  IF Len(s) = 0 THEN ""
  ELSE LET c == CharAt(s, 1)
           i == find(UpperLetters, c)
       IN  (IF i = 0 THEN c ELSE CharAt(LowerLetters, i)) \o lower(Tail(s))

\* The characters of [_a-zA-Z0-9].
WordChars ==
  {"_"} \cup { CharAt(LowerLetters, i) : i \in 1..Len(LowerLetters) }
        \cup { CharAt(UpperLetters, i) : i \in 1..Len(UpperLetters) }
        \cup { CharAt(Digits, i) : i \in 1..Len(Digits) }

\* [_a-zA-Z0-9]
IsWordChar(c) == c \in WordChars

\* The length of the longest run of [_a-zA-Z0-9] of s that starts at i.
RECURSIVE WordRun(_, _)
WordRun(s, i) ==
  IF i <= Len(s) /\ IsWordChar(CharAt(s, i)) THEN 1 + WordRun(s, i + 1) ELSE 0

\* re.match("# ([_a-zA-Z0-9]+) \(([_a-zA-Z0-9]+)\)", line): a match at the
\* start of the line; whatever follows the ")" is not looked at.
HeaderMatch(line) ==
  LET n1 == WordRun(line, 3)
      p  == 3 + n1
      n2 == WordRun(line, p + 2)
  IN  IF /\ startswith(line, "# ")
         /\ n1 >= 1
         /\ Len(line) >= p + 1
         /\ SubSeq(line, p, p + 1) = " ("
         /\ n2 >= 1
         /\ Len(line) >= p + 2 + n2
         /\ CharAt(line, p + 2 + n2) = ")"
      THEN [matched |-> TRUE,
            group1 |-> SubSeq(line, 3, p - 1),
            group2 |-> SubSeq(line, p + 2, p + 1 + n2)]
      ELSE [matched |-> FALSE, group1 |-> "", group2 |-> ""]

\* The records of PropertyAliases.txt the kinds are read from, in the order
\* of the file: numeric, string, then the enumerated properties.
PvPropertyAliasesTxt ==
  << <<"nv", "Numeric_Value">>,
     <<"bmg", "Bidi_Mirroring_Glyph">>,
     <<"isc", "ISO_Comment">>,
     <<"suc", "Simple_Uppercase_Mapping">>,
     <<"age", "Age">>,
     <<"gc", "General_Category">> >>

\* KINDS = parse_propertytypes()
KINDS == parse_propertytypes(PvPropertyAliasesTxt).table

\* Property.GROUP_FN: None, or a dict.
NoGroupFn == [isNone |-> TRUE, dict |-> EmptyDict]

\* Property(NAME, FULLNAME, KEYS, KIND=KIND)
Property(NAME, FULLNAME, KEYS, KIND) ==
  [NAME |-> NAME, FULLNAME |-> FULLNAME, KEYS |-> KEYS,
   DEFAULT_VALUE |-> NoDefault, GROUP_FN |-> NoGroupFn, KIND |-> KIND]

\* What an exception leaves of the run: no catalog is returned.
PvRaise(st) == [st EXCEPT !.ok = FALSE]

\* A "# @missing: " line that never changes the kind.
missing_line_no_promotion(st, line) ==
  LET split == split_strip(SubSeq(line, 13, Len(line)), ";")
      RANGE == range_from_str(split[1])
  IN  IF ~RANGE.ok \/ Len(split) < 3 \/ st.current \notin DOMAIN st.list
      THEN PvRaise(st)
      ELSE [st EXCEPT !.list[st.current].DEFAULT_VALUE =
                        Default(RANGE.begin, RANGE.end, split[3])]

\* The branch of a "# @missing: " line: the default goes to the descriptor
\* of CURRENT_PROPERTY, whatever property the line names, and a String
\* property whose default is "<code point>" becomes a pointer.
missing_line(st, line) ==
  LET split == split_strip(SubSeq(line, 13, Len(line)), ";")
      RANGE == range_from_str(split[1])
  IN  IF ~RANGE.ok \/ Len(split) < 3 \/ st.current \notin DOMAIN st.list
      THEN PvRaise(st)
      ELSE LET VALUE == split[3]
               p     == [st.list[st.current] EXCEPT
                           !.DEFAULT_VALUE = Default(RANGE.begin, RANGE.end, VALUE)]
           IN  [st EXCEPT !.list[st.current] =
                 IF lower(VALUE) = "<code point>" /\ p.KIND = "STR"
                 THEN [p EXCEPT !.KIND = "PTR"] ELSE p]

\* The branch of any other line that starts with "#": a header
\* "# Name (abrv)" opens the context of abrv with a new descriptor.
header_line(st, line) ==
  LET match == HeaderMatch(line) IN
  IF ~match.matched THEN st
  ELSE IF match.group2 \notin DOMAIN KINDS THEN PvRaise(st)
  ELSE [st EXCEPT !.current = match.group2,
                  !.list = DictSet(@, match.group2,
                                   Property(match.group2, match.group1, EmptyDict,
                                            KINDS[match.group2]))]

\* current_dict = {VALUE: VALUE, split[2]: VALUE, ...} over the first n fields
RECURSIVE current_dict(_, _)
current_dict(split, n) ==
  IF n < 2 THEN EmptyDict
  ELSE DictSet(current_dict(split, n - 1), split[n], split[2])

\* The code for a line that is no comment: "NAME ; VALUE ; alias ...".
\* A line with a "#" only sets the grouping entry when it has a "|"; a line
\* without adds its keys to the descriptor of NAME, and raises when there is
\* none (KINDS[NAME], or Property() called without FULLNAME).
value_line(st, line) ==
  LET split == split_strip(line, ";") IN
  IF Len(split) < 2 THEN PvRaise(st)
  ELSE
  LET NAME  == split[1]
      VALUE == split[2]
  IN  IF contains(line, "#")
      THEN IF contains(line, "|")
           THEN LET parts == str_split(split[Len(split)], "#") IN
                IF NAME \notin DOMAIN st.list \/ Len(parts) < 2 THEN PvRaise(st)
                ELSE [st EXCEPT !.list[NAME].GROUP_FN =
                        [isNone |-> FALSE,
                         dict |-> DictSet(@.dict, VALUE, split_strip(parts[2], "|"))]]
           ELSE st
      ELSE IF NAME \in DOMAIN st.list
           THEN [st EXCEPT !.list[NAME].KEYS =
                   DictUpdate(@, current_dict(split, Len(split)))]
           ELSE PvRaise(st)

\* The body of the loop of parse_propertyvalue on one line.
property_value_line(st, line) ==
  IF startswith(line, "# @missing: ") THEN missing_line(st, line)
  ELSE IF startswith(line, "#") THEN header_line(st, line)
  ELSE value_line(st, line)

\* for i in DEPRECATED_PROPERTIES: PROPERTY_LIST.pop(i, None)
pop_deprecated(list) ==
  [k \in DOMAIN list \ DEPRECATED_PROPERTIES |-> list[k]]

\* The lines a PropertyValueAliases.txt may hold.
PvLinePool ==
  { "# Simple_Uppercase_Mapping (suc)",
    "# @missing: 0000..10FFFF; Simple_Uppercase_Mapping; <code point>",
    "# General_Category (gc)",
    "# @missing: 0000..10FFFF; General_Category; Unassigned",
    "gc ; Lu ; Uppercase_Letter",
    "gc ; Ll ; Lowercase_Letter",
    "gc ; C ; Other # Cc | Cf | Cn | Co | Cs",
    "# ISO_Comment (isc)" }

PvInit ==
  /\ pv_pc = "lines"
  /\ pv_lines = <<>>
  /\ pv_list = EmptyDict
  /\ CURRENT_PROPERTY = ""
  /\ HexIdle /\ ChunkIdle /\ AliasIdle /\ UdIdle /\ RangeIdle /\ KindsIdle

\* The loop body on the next line of the file.
PvLine ==
  /\ pv_pc = "lines"
  /\ Len(pv_lines) < MaxPvLines
  /\ \E line \in PvLinePool :
       LET st == property_value_line(
                   [list |-> pv_list, current |-> CURRENT_PROPERTY, ok |-> TRUE],
                   line)
       IN  /\ pv_lines' = Append(pv_lines, line)
           /\ pv_list' = st.list
           /\ CURRENT_PROPERTY' = st.current
           /\ pv_pc' = IF st.ok THEN "lines" ELSE "error"
  /\ UNCHANGED <<hexVars, chunkVars, aliasVars, udVars, rangeVars, kindsVars>>

\* The end of the file: the deprecated properties are removed and the
\* catalog is returned.
PvReturn ==
  /\ pv_pc = "lines"
  /\ pv_list' = pop_deprecated(pv_list)
  /\ pv_pc' = "done"
  /\ UNCHANGED <<pv_lines, CURRENT_PROPERTY,
                 hexVars, chunkVars, aliasVars, udVars, rangeVars, kindsVars>>

PvNext == PvLine \/ PvReturn

SpecCatalog == PvInit /\ [][PvNext]_vars

\* The line is a "# @missing: " line; the line is a header "# Name (abrv)".
IsMissing(line) == startswith(line, "# @missing: ")

IsHeader(line) ==
  /\ ~IsMissing(line)
  /\ startswith(line, "#")
  /\ HeaderMatch(line).matched

\* The header lines among the first n lines read, and the property context
\* after the n-th line: the abbreviation of the most recent header.
Headers(n) == { m \in 1..n : IsHeader(pv_lines[m]) }

ContextAt(n) ==
  IF Headers(n) = {} THEN ""
  ELSE LET h == CHOOSE h \in Headers(n) : \A k \in Headers(n) : k <= h
       IN  HeaderMatch(pv_lines[h]).group2

\* The "# @missing: " lines read in the context of P since the last header
\* of P.
MissingOf(P) ==
  { m \in 1..Len(pv_lines) :
      /\ IsMissing(pv_lines[m])
      /\ ContextAt(m) = P
      /\ \A h \in Headers(Len(pv_lines)) :
           HeaderMatch(pv_lines[h]).group2 = P => h < m }

\* The token of a "# @missing: " line: its third field.
MissingToken(line) == split_strip(SubSeq(line, 13, Len(line)), ";")[3]

\* C17: in the catalog, every property the kinds table classifies String
\* whose recorded default token is "<code point>" has the kind pointer,
\* whatever the order of the header, "# @missing: " and value lines was; and
\* each "# @missing: " default is attached to the context the most recent
\* header opened: the recorded default of P is that of the last such line
\* read in the context of P, whatever property the line names.
C17_PointerPromotion ==
  pv_pc \in {"lines", "done"} =>
    /\ CURRENT_PROPERTY = ContextAt(Len(pv_lines))
    /\ \A P \in DOMAIN pv_list :
         /\ (/\ KINDS[P] = "STR"
             /\ pv_list[P].DEFAULT_VALUE.has
             /\ pv_list[P].DEFAULT_VALUE.token = "<code point>")
            => pv_list[P].KIND = "PTR"
         /\ IF MissingOf(P) = {}
            THEN ~pv_list[P].DEFAULT_VALUE.has
            ELSE LET m == CHOOSE m \in MissingOf(P) : \A k \in MissingOf(P) : k <= m
                 IN  /\ pv_list[P].DEFAULT_VALUE.has
                     /\ pv_list[P].DEFAULT_VALUE.token = MissingToken(pv_lines[m])

\* C17 witness: the catalog is returned after the header and a value line of
\* General_Category, then the header of Simple_Uppercase_Mapping and its
\* "# @missing: " line: suc is a pointer with the default "<code point>".
C17_Witness ==
  /\ pv_pc = "done"
  /\ Len(pv_lines) = 4
  /\ "gc" \in DOMAIN pv_list
  /\ "Lu" \in DOMAIN pv_list["gc"].KEYS
  /\ "suc" \in DOMAIN pv_list
  /\ KINDS["suc"] = "STR"
  /\ pv_list["suc"].DEFAULT_VALUE.token = "<code point>"
  /\ pv_list["suc"].KIND = "PTR"

\* The fields 'P ; v ; a1 ; ...' of a line that is no comment, its trailing
\* "#" comment left out.
ValueFields(line) == split_strip(str_split(line, "#")[1], ";")

\* A later line of property P lists key again.
Relisted(n, P, key) ==
  \E m \in (n + 1)..Len(pv_lines) :
    /\ ~startswith(pv_lines[m], "#")
    /\ ValueFields(pv_lines[m])[1] = P
    /\ \E i \in 2..Len(ValueFields(pv_lines[m])) : ValueFields(pv_lines[m])[i] = key

\* C18 as claimed: every line 'P ; v ; a1 ; ... ; an' of a property P that is
\* not deprecated is taken in, whether or not P had been seen before it: the
\* line does not abort the run, the descriptor of P maps v and each ai to v
\* unless a later line lists the same key again, and a trailing "#" comment
\* with a "|" list sets the grouping entry of v.
C18_ValueLines ==
  \A n \in 1..Len(pv_lines) :
    LET line   == pv_lines[n]
        fields == ValueFields(line)
        P      == fields[1]
        v      == fields[2]
    IN  (~startswith(line, "#") /\ P \notin DEPRECATED_PROPERTIES) =>
          /\ ~(pv_pc = "error" /\ n = Len(pv_lines))
          /\ pv_pc \in {"lines", "done"} =>
               /\ P \in DOMAIN pv_list
               /\ \A i \in 2..Len(fields) :
                    \/ Relisted(n, P, fields[i])
                    \/ /\ fields[i] \in DOMAIN pv_list[P].KEYS
                       /\ pv_list[P].KEYS[fields[i]] = v
               /\ (contains(line, "#") /\ contains(line, "|")) =>
                    /\ v \in DOMAIN pv_list[P].GROUP_FN.dict
                    /\ pv_list[P].GROUP_FN.dict[v] =
                         split_strip(str_split(line, "#")[2], "|")

=============================================================================
